---- MODULE Spec2Model ----
(***************************************************************************)
(* Model of ixmp.reporting.Reporter (src/ixmp/reporting/__init__.py).      *)
(*                                                                         *)
(* The Reporter keeps a dask graph (self.graph, a dict) and evaluates it   *)
(* with dask.threaded.get(self.graph, key).  The registry operations are   *)
(* translated from the Reporter methods; get is translated as the call it  *)
(* makes: the dask threaded scheduler run on the whole dict (threaded.get  *)
(* does not cull the graph), with the dask graph-specification rules for   *)
(* what is a key, a literal and a task.                                    *)
(*                                                                         *)
(* Three specifications run the same actions on different inputs:         *)
(*   Spec      the registry with string labels and get,                    *)
(*   SpecKey   add and disaggregate handed a Key object of the caller      *)
(*             (Key is ixmp/reporting/utils.py; its pass-through parse and *)
(*             its equality are taken from the design document),           *)
(*   SpecDeps  get on tasks with list arguments and raising operations.    *)
(*                                                                         *)
(* Representation.                                                         *)
(*   label / atom : a tuple of strings whose head is the kind,             *)
(*        <<"str", s>>        the Python string s                          *)
(*        <<"str","file:",p>> the string 'file:' + p                       *)
(*        <<"key", n, d1..>>  Key(n, [d1, ...]), an object nobody but the   *)
(*                            registry holds                               *)
(*        <<"ref", o>>        the Key object o that the caller holds; its  *)
(*                            _dims list is heap[o]                        *)
(*        <<"slot", o, d1..>> the dict entry whose key is the object o,    *)
(*                            filed under the hash o had with dims d1..    *)
(*        <<"obj", h>>        a Scenario object (never a key)              *)
(*        <<"num", n>>        a number                                     *)
(*        <<"list", s1, ..>>  the list ['s1', ...] of strings, as an       *)
(*                            argument of a task                           *)
(*   computation : [op, args]; op = <<>> for a bare atom (alias or         *)
(*        literal, decided by membership in the graph as dask does),       *)
(*        otherwise a task tuple (op, args...) with a callable op          *)
(*   value : <<<<"lit">>, atom>> or <<op, v1, ..., vn>>, and               *)
(*        <<<<"list">>, v1, ..., vn>> for a list                           *)
(***************************************************************************)
EXTENDS Integers, Sequences, FiniteSets, TLC

VARIABLES graph, pc, key, cache, waiting, waiting_data, ready, running,
          queue, calls, last, prev, heap

vars == <<graph, pc, key, cache, waiting, waiting_data, ready, running,
          queue, calls, last, prev, heap>>

sched == <<cache, waiting, waiting_data, ready, running, queue>>

(* ---------------------------------------------------------------- bounds *)
NumWorkers == 2
MaxEntries == 4
\* the longest _dims list of a Key object of the caller
MaxDims == 2

(* ------------------------------------------------------- atoms and terms *)
Str(s) == <<"str", s>>
SCEN == Str("scenario")
W == Str("w")
X == Str("x")
Y == Str("y")
Z == Str("z")
N5 == <<"num", "5">>
H1 == <<"obj", "h1">>
H2 == <<"obj", "h2">>
\* the Key objects of the caller, k1 = Key('x', ...)
Objs == {"k1"}
K1 == <<"ref", "k1">>
KeyName(o) == "x"

F == <<"f">>
G == <<"g">>
BAD == <<"bad">>
NoOp == <<>>

Atom(a) == [op |-> NoOp, args |-> <<a>>]
Task(o, as) == [op |-> o, args |-> as]
istask(c) == c.op # NoOp

Lit(a) == <<<<"lit">>, a>>
NoVal == <<>>

\* an operation of the catalogue raises when called
Raises(o) == o = BAD

Range(s) == {s[i] : i \in 1..Len(s)}

Restrict(f, S) == [x \in S |-> f[x]]

(* -------------------------------------------------- the inputs enumerated *)
\* (key, computation) pairs handed to add
AddInputs ==
  { <<W, Task(F, <<SCEN>>)>>,
    <<X, Task(F, <<W>>)>>,    <<X, Atom(Y)>>,
    <<Y, Task(F, <<W>>)>>,    <<Y, Atom(X)>>,
    <<Z, Task(G, <<X, Y>>)>>, <<Z, Atom(X)>>,  <<Z, Task(BAD, <<>>)>> }

Handles == {H1, H2}
GetKeys == {X, Z}
Paths == {"p"}
Dims == {"d"}
\* method arguments of disaggregate: a name, a callable, a non-callable
Methods == {<<"name", "shares">>, <<"name", "nosuch">>, N5}
DisaggArgs == {<<>>}
\* what scenario.par_list() returns: the names of the parameters
ParLists == {<<>>, <<"a">>}

(* ------------------------------------------------------------ dask graph *)
\* the elements of a list argument
List(ss) == <<"list">> \o ss
islist(a) == a[1] = "list"
elements(a) == [i \in 1..(Len(a) - 1) |-> Str(a[i + 1])]

\* the atoms an argument holds: itself, or the elements of the list
arg_atoms(a) == IF islist(a) THEN Range(elements(a)) ELSE {a}

\* faulty variant: a list argument is not searched for keys
get_dependencies_flat(dsk, k) == {a \in Range(dsk[k].args) : a \in DOMAIN dsk}

\* dask.core.get_dependencies: the arguments of the computation bound to k
\* that are keys of the graph, those inside a list argument included
get_dependencies(dsk, k) ==
  {a \in UNION {arg_atoms(x) : x \in Range(dsk[k].args)} : a \in DOMAIN dsk}

\* faulty variant: a bare key bound to a label is taken for a literal
has_tasks_literal(dsk, c) == istask(c)

\* dask.local.has_tasks: a task tuple, or a key of the graph
has_tasks(dsk, c) == istask(c) \/ c.args[1] \in DOMAIN dsk

dependents(dsk, k) == {j \in DOMAIN dsk : k \in get_dependencies(dsk, j)}

RECURSIVE ReachFrom(_, _)
ReachFrom(dsk, S) ==
  LET T == S \cup UNION {get_dependencies(dsk, j) : j \in S}
  IN IF T = S THEN S ELSE ReachFrom(dsk, T)

\* the labels k depends on, transitively
Closure(dsk, k) == ReachFrom(dsk, get_dependencies(dsk, k))

HasCycle(dsk) == \E k \in DOMAIN dsk : k \in Closure(dsk, k)

\* dask.local.start_state_from_dask
data_keys(dsk) == {k \in DOMAIN dsk : ~has_tasks(dsk, dsk[k])}

\* faulty variant: one cache shared by successive get calls
start_cache_shared(dsk) ==
  LET fresh == [k \in data_keys(dsk) |-> Lit(dsk[k].args[1])]
  IN IF last.api = "get" /\ last.res = "ok"
     THEN [k \in DOMAIN fresh \cup {last.key} |->
             IF k = last.key THEN last.val ELSE fresh[k]]
     ELSE fresh

start_cache(dsk) == [k \in data_keys(dsk) |-> Lit(dsk[k].args[1])]

start_waiting(dsk) ==
  [k \in DOMAIN dsk \ data_keys(dsk) |-> get_dependencies(dsk, k) \ data_keys(dsk)]

start_waiting_data(dsk) ==
  [k \in {j \in DOMAIN dsk : dependents(dsk, j) # {}} |-> dependents(dsk, k)]

\* dask.local._execute_task on one argument: a key of the cache is replaced
\* by its value, a list by the list of what its elements give, and anything
\* else is passed through as it is
atom_value(a, data) == IF a \in DOMAIN data THEN data[a] ELSE Lit(a)

arg_value(a, data) ==
  IF islist(a)
  THEN <<<<"list">>>> \o [i \in 1..(Len(a) - 1) |-> atom_value(elements(a)[i], data)]
  ELSE atom_value(a, data)

task_args(c, data) == [i \in 1..Len(c.args) |-> arg_value(c.args[i], data)]

\* dask.local.execute_task: (key, result, failed)
execute_result(k, c, data) ==
  IF ~istask(c) THEN [key |-> k, res |-> arg_value(c.args[1], data), failed |-> FALSE]
  ELSE IF Raises(c.op) THEN [key |-> k, res |-> NoVal, failed |-> TRUE]
  ELSE [key |-> k, res |-> <<c.op>> \o task_args(c, data), failed |-> FALSE]

(* ------------------------------------------------------------- Reporter *)
Bind(g, k, c) == [x \in DOMAIN g \cup {k} |-> IF x = k THEN c ELSE g[x]]

(* Key objects as dict keys.  A dict files an entry under the hash its key *)
(* had when it was inserted, and a lookup finds an entry when that hash is *)
(* the hash of the probe and the key, as it is now, equals the probe.      *)
\* the dimensions of a Key value
dims_of(v) == SubSeq(v, 3, Len(v))

\* what the key of a dict entry is worth now
KeyOf(e, hp) ==
  IF e[1] \in {"slot", "ref"} THEN <<"key", KeyName(e[2])>> \o hp[e[2]] ELSE e

\* what the key of a dict entry was worth when the entry was inserted
StoredKey(e) ==
  IF e[1] = "slot" THEN <<"key", KeyName(e[2])>> \o dims_of(e) ELSE e

\* Key.__eq__ / Key.__hash__: the name and the set of the dimensions
SameKey(a, b) ==
  IF a[1] = "key" /\ b[1] = "key"
  THEN a[2] = b[2] /\ Range(dims_of(a)) = Range(dims_of(b))
  ELSE a = b

\* dict lookup of the value v: the entries it finds
Lookup(g, hp, v) ==
  {e \in DOMAIN g : SameKey(StoredKey(e), v) /\ SameKey(KeyOf(e, hp), v)}

\* the entries of the object o filed under a hash o has no longer
Stale(g, hp, o) ==
  {e \in DOMAIN g :
     e[1] = "slot" /\ e[2] = o /\ ~SameKey(StoredKey(e), KeyOf(e, hp))}

\* the entry a new key p makes
new_entry(p, hp) == IF p[1] = "ref" THEN <<"slot", p[2]>> \o hp[p[2]] ELSE p

\* self.graph[p] = ...: the entry written.  A lookup compares by identity
\* before it compares hashes, so an object whose hash has changed hits an
\* entry of its own when the probe sequence of its new hash passes that
\* entry's slot, which depends on the hash values of the process; otherwise
\* the entry the lookup finds is written, or a new one is made.
Targets(g, hp, p) ==
  LET found == Lookup(g, hp, KeyOf(p, hp))
  IN (IF p[1] = "ref" THEN Stale(g, hp, p[2]) ELSE {})
       \cup (IF found # {} THEN found ELSE {new_entry(p, hp)})

\* the record of the latest finished API call
Call(api, k, c, strict, res, val) ==
  [api |-> api, key |-> k, comp |-> c, strict |-> strict, res |-> res, val |-> val]

NoKey == Str("")
NoComp == Atom(NoKey)
Empty == [x \in {} |-> NoComp]

NoCall == Call("none", NoKey, NoComp, FALSE, "ok", NoVal)
\* a get finished earlier, and the registry has been changed since
OldCall == Call("old", NoKey, NoComp, FALSE, "ok", NoVal)

\* prev after a call that changes the registry
Forget == IF last.api = "get" \/ prev = OldCall THEN OldCall ELSE NoCall

Idle == pc = "idle"

Init ==
  /\ graph = Empty
  /\ pc = "idle"
  /\ key = NoKey
  /\ cache = [x \in {} |-> NoVal]
  /\ waiting = [x \in {} |-> {}]
  /\ waiting_data = [x \in {} |-> {}]
  /\ ready = {}
  /\ running = {}
  /\ queue = <<>>
  /\ calls = [x \in {} |-> <<>>]
  /\ last = Call("init", NoKey, NoComp, FALSE, "ok", NoVal)
  /\ prev = NoCall
  /\ heap = [o \in Objs |-> <<>>]

\* the par_list of the scenario, as the record of the call keeps it
ParArg(pars) == <<<<"par_list">>>> \o [i \in 1..Len(pars) |-> Str(pars[i])]

\* Reporter.from_scenario: rep = cls() and one round of the loop for each
\* parameter.  The round calls cls.add(base_key, data): add called on the
\* class, so base_key is taken for self, data for key, and the argument
\* computation is missing, which is a TypeError; nothing is returned then,
\* and the registry in use stays the one it was.  With no parameter the new,
\* empty Reporter is returned.
from_scenario(pars) ==
  /\ Idle
  /\ IF Len(pars) = 0
     THEN /\ graph' = Empty
          /\ last' = Call("from_scenario", NoKey, NoComp, FALSE, "ok", ParArg(pars))
     ELSE /\ last' = Call("from_scenario", NoKey, NoComp, FALSE, "TypeError",
                          ParArg(pars))
          /\ UNCHANGED graph
  /\ calls' = [x \in {} |-> <<>>]
  /\ prev' = Forget
  /\ UNCHANGED <<pc, key, sched, heap>>

\* Reporter.add: the strict check, then the assignment
add_raises(g, k, strict) == strict /\ k \in DOMAIN g

add(k, c, strict) ==
  /\ Idle
  /\ \E e \in Targets(graph, heap, k) :
       /\ Cardinality(DOMAIN graph \cup {e}) <= MaxEntries
       /\ IF add_raises(graph, e, strict)
          THEN /\ last' = Call("add", k, c, strict, "KeyError", NoVal)
               /\ UNCHANGED graph
          ELSE /\ graph' = Bind(graph, e, c)
               /\ last' = Call("add", k, c, strict, "ok", NoVal)
  /\ calls' = [x \in {} |-> <<>>]
  /\ prev' = Forget
  /\ UNCHANGED <<pc, key, sched, heap>>

\* faulty variant: finalize keeps an existing binding of 'scenario'
finalize_graph_setdefault(g, scenario) ==
  IF SCEN \in DOMAIN g THEN g ELSE Bind(g, SCEN, Atom(scenario))

\* Reporter.finalize
finalize_graph(g, scenario) == Bind(g, SCEN, Atom(scenario))

finalize(scenario) ==
  /\ Idle
  /\ Cardinality(DOMAIN graph \cup {SCEN}) <= MaxEntries
  /\ graph' = finalize_graph(graph, scenario)
  /\ last' = Call("finalize", SCEN, Atom(scenario), FALSE, "ok", NoVal)
  /\ calls' = [x \in {} |-> <<>>]
  /\ prev' = Forget
  /\ UNCHANGED <<pc, key, sched, heap>>

\* Key.from_str_or_key: a Key is passed through as it is; a string is
\* parsed into a new Key, the name and no dimensions ('file:p' has the name
\* 'file' and the dimension p)
from_str_or_key(var) ==
  IF var[1] = "ref" THEN var
  ELSE IF Len(var) = 3 THEN <<"key", "file", var[3]>> ELSE <<"key", var[2]>>

\* key._dims.append(new_dim)
dims_append(ds, new_dim) == Append(ds, new_dim)

\* the Key after the append: the same object when it is one of the caller's
key_after(k, new_dim) ==
  IF k[1] = "ref" THEN k ELSE <<k[1], k[2]>> \o dims_append(dims_of(k), new_dim)

heap_after(hp, k, new_dim) ==
  IF k[1] = "ref" THEN [hp EXCEPT ![k[2]] = dims_append(@, new_dim)] ELSE hp

\* the catalogue ixmp.reporting.computations
Catalogue == {<<"disaggregate_shares">>, <<"load_file">>}

callable(m) == m[1] = "fn"

\* the new_dim argument, as the record of the call keeps it
DimArg(new_dim) == <<<<"new_dim">>, Str(new_dim)>>

\* Reporter.disaggregate
\* (the record of a failed call keeps the method and var it was given)
disaggregate(var, new_dim, method, args) ==
  LET k0 == from_str_or_key(var)
      k == key_after(k0, new_dim)
      hp == heap_after(heap, k0, new_dim)
      named == <<"disaggregate_" \o method[2]>>
  IN
  /\ Idle
  /\ k0[1] = "ref" => Len(heap[k0[2]]) < MaxDims
  /\ heap' = hp
  /\ IF method[1] = "name" /\ named \notin Catalogue
     THEN /\ Cardinality(DOMAIN graph \cup {new_entry(k, hp)}) <= MaxEntries
          /\ last' = Call("disaggregate", k, Task(method, <<var>>), FALSE,
                          "ValueError", DimArg(new_dim))
          /\ UNCHANGED graph
     ELSE IF method[1] # "name" /\ ~callable(method)
     THEN /\ Cardinality(DOMAIN graph \cup {new_entry(k, hp)}) <= MaxEntries
          /\ last' = Call("disaggregate", k, Task(method, <<var>>), FALSE,
                          "ValueError", DimArg(new_dim))
          /\ UNCHANGED graph
     ELSE LET m == IF method[1] = "name" THEN named ELSE <<method[2]>>
              c == Task(m, <<var>> \o args)
          IN \E e \in Targets(graph, hp, k) :
               /\ Cardinality(DOMAIN graph \cup {e}) <= MaxEntries
               /\ graph' = Bind(graph, e, c)
               /\ last' = Call("disaggregate", k, c, FALSE, "ok", DimArg(new_dim))
  /\ calls' = [x \in {} |-> <<>>]
  /\ prev' = Forget
  /\ UNCHANGED <<pc, key, sched>>

\* Reporter.add_file
file_label(path) == <<"str", "file:", path>>

add_file(path) ==
  LET k == file_label(path)
      c == Task(<<"load_file", path>>, <<>>)
  IN
  /\ Idle
  /\ Cardinality(DOMAIN graph \cup {k}) <= MaxEntries
  /\ graph' = Bind(graph, k, c)
  /\ last' = Call("add_file", k, c, FALSE, "ok", NoVal)
  /\ calls' = [x \in {} |-> <<>>]
  /\ prev' = Forget
  /\ UNCHANGED <<pc, key, sched, heap>>

(* ------------------------------------------- Reporter.get: dask_get(...) *)
Min(a, b) == IF a < b THEN a ELSE b

\* fire_task while there are ready tasks and idle workers
FireSets(rdy, run) ==
  {S \in SUBSET rdy :
     Cardinality(S) = Min(Cardinality(rdy), NumWorkers - Cardinality(run))}

\* faulty variant: a started key is left on the ready list
pop_ready_kept(rdy, S) == rdy

\* fire_task pops the keys it starts off the ready list
pop_ready(rdy, S) == rdy \ S

\* dask.order.order: later releases refuse a graph with a cycle, the
\* releases of the time of this code do not look for one
order_raises(dsk, refuses) == refuses /\ HasCycle(dsk)

\* faulty variant: the scheduler writes each result into the graph it was given
graph_after_inplace(g, k, res) == Bind(g, k, Atom(<<"obj", "result">>))

\* the scheduler works on dict(dsk) and a cache of its own: a result is
\* stored in the cache, and self.graph is what it was
graph_after(g, k, res) == g

cache_after(ch, k, res) == Bind(ch, k, res)

\* dask.local.nested_get for one key
\* (the comp field of a get record is the computation that the call right
\* before it, a successful add of the same key, bound; NoComp otherwise)
nested_get(k, ch, c) ==
  IF k \in DOMAIN ch THEN Call("get", k, c, FALSE, "ok", ch[k])
  ELSE Call("get", k, c, FALSE, "KeyError", NoVal)

Raise(k, err, c) == Call("get", k, c, FALSE, err, NoVal)

\* raise_exception(exc, tb): the exception of the task j is raised again as
\* it is
RaiseOf(k, j, c) == Call("get", k, c, FALSE, "OpError", <<<<"raised by">>, j>>)

JustAdded(k) ==
  IF last.api = "add" /\ last.res = "ok" /\ last.key = k THEN last.comp ELSE NoComp

\* the call is over: its scheduler state is dropped
Return(result) ==
  /\ last' = result
  /\ pc' = "idle"
  /\ key' = NoKey
  /\ cache' = [x \in {} |-> NoVal]
  /\ waiting' = [x \in {} |-> {}]
  /\ waiting_data' = [x \in {} |-> {}]
  /\ ready' = {}
  /\ running' = {}
  /\ queue' = <<>>

\* get_async up to the first fire_task loop
get(k) ==
  /\ Idle
  /\ calls' = [x \in {} |-> <<>>]
  /\ prev' = (IF last.api = "get" THEN last ELSE prev)
  /\ UNCHANGED <<graph, heap>>
  /\ \E refuses \in BOOLEAN :
     IF order_raises(graph, refuses) THEN Return(Raise(k, "RuntimeError", JustAdded(k)))
     ELSE
     LET w0 == start_waiting(graph)
         rdy == {j \in DOMAIN w0 : w0[j] = {}}
         wt == Restrict(w0, DOMAIN w0 \ rdy)
     IN IF DOMAIN wt # {} /\ rdy = {} THEN Return(Raise(k, "ValueError", JustAdded(k)))
        ELSE IF rdy = {} THEN Return(nested_get(k, start_cache(graph), JustAdded(k)))
        ELSE \E S \in FireSets(rdy, {}) :
               /\ pc' = "get"
               /\ key' = k
               /\ cache' = start_cache(graph)
               /\ waiting' = wt
               /\ waiting_data' = start_waiting_data(graph)
               /\ ready' = pop_ready(rdy, S)
               /\ running' = S
               /\ queue' = <<>>
               /\ last' = Call("get", k, JustAdded(k), FALSE, "running", NoVal)

\* a worker of the pool runs execute_task and puts the result on the queue
execute_task(k) ==
  /\ pc = "get"
  /\ k \in running
  /\ \A i \in 1..Len(queue) : queue[i].key # k
  /\ LET c == graph[k]
         data == Restrict(cache, get_dependencies(graph, k) \cap DOMAIN cache)
     IN /\ queue' = Append(queue, execute_result(k, c, data))
        /\ calls' = IF istask(c)
                    THEN Bind(calls, k,
                              Append(IF k \in DOMAIN calls THEN calls[k] ELSE <<>>,
                                     task_args(c, data)))
                    ELSE calls
  /\ UNCHANGED <<graph, pc, key, cache, waiting, waiting_data, ready, running,
                 last, prev, heap>>

\* finish_task: the dependents that wait for nothing else become ready
newly_ready(dsk, wt, k) ==
  {d \in dependents(dsk, k) \cap DOMAIN wt : wt[d] \ {k} = {}}

\* finish_task / release_data: what no unfinished task needs is deleted,
\* unless it is a requested result
released(dsk, wd, k, result) ==
  {d \in get_dependencies(dsk, k) \cap DOMAIN wd : wd[d] \ {k} = {} /\ d # result}

\* one round of the loop of get_async: take a result off the queue, raise its
\* exception or store it, finish_task, fire_task, and return when nothing is
\* waiting, ready or running
get_loop ==
  /\ pc = "get"
  /\ queue # <<>>
  /\ UNCHANGED <<calls, prev, heap>>
  /\ LET m == Head(queue) IN
     IF m.failed
     THEN /\ Return(RaiseOf(key, m.key, last.comp))
          /\ UNCHANGED graph
     ELSE
     LET c1 == cache_after(cache, m.key, m.res)
         nr == newly_ready(graph, waiting, m.key)
         w1 == [d \in DOMAIN waiting \ nr |-> waiting[d] \ {m.key}]
         rel == released(graph, waiting_data, m.key, key)
         wd1 == [d \in DOMAIN waiting_data \ rel |->
                   IF d \in get_dependencies(graph, m.key)
                   THEN waiting_data[d] \ {m.key} ELSE waiting_data[d]]
         c2 == Restrict(c1, DOMAIN c1 \ rel)
         run1 == running \ {m.key}
         rdy1 == ready \cup nr
     IN /\ graph' = graph_after(graph, m.key, m.res)
        /\ \E S \in FireSets(rdy1, run1) :
            IF DOMAIN w1 = {} /\ pop_ready(rdy1, S) = {} /\ run1 \cup S = {}
            THEN Return(nested_get(key, c2, last.comp))
            ELSE /\ cache' = c2
                 /\ waiting' = w1
                 /\ waiting_data' = wd1
                 /\ ready' = pop_ready(rdy1, S)
                 /\ running' = run1 \cup S
                 /\ queue' = Tail(queue)
                 /\ UNCHANGED <<pc, key, last>>

Next ==
  \/ \E pars \in ParLists : from_scenario(pars)
  \/ \E in \in AddInputs, strict \in BOOLEAN : add(in[1], in[2], strict)
  \/ \E h \in Handles : finalize(h)
  \/ \E var \in {X}, d \in Dims, m \in Methods, as \in DisaggArgs :
       disaggregate(var, d, m, as)
  \/ \E p \in Paths : add_file(p)
  \/ \E k \in GetKeys : get(k)
  \/ \E k \in running : execute_task(k)
  \/ get_loop

Spec == Init /\ [][Next]_vars

(* -------------------------------- the registry with Key objects as labels *)
\* the caller holds k1 = Key('x', []) or k1 = Key('x', ['d']) and hands it
\* to add and to disaggregate
KeyDimLists == {<<>>, <<"d">>}
KeyAddInputs == { <<K1, Atom(N5)>> }
KeyVars == {K1, X}
KeyDims == {"d", "e"}
KeyMethods == Methods
KeyArgs == {<<>>, <<Y>>}

InitKey ==
  /\ graph = Empty
  /\ pc = "idle"
  /\ key = NoKey
  /\ cache = [x \in {} |-> NoVal]
  /\ waiting = [x \in {} |-> {}]
  /\ waiting_data = [x \in {} |-> {}]
  /\ ready = {}
  /\ running = {}
  /\ queue = <<>>
  /\ calls = [x \in {} |-> <<>>]
  /\ last = Call("init", NoKey, NoComp, FALSE, "ok", NoVal)
  /\ prev = NoCall
  /\ heap \in [Objs -> KeyDimLists]

NextKey ==
  \/ \E in \in KeyAddInputs, strict \in BOOLEAN : add(in[1], in[2], strict)
  \/ \E h \in {H1} : finalize(h)
  \/ \E var \in KeyVars, d \in KeyDims, m \in KeyMethods, as \in KeyArgs :
       disaggregate(var, d, m, as)
  \/ \E p \in Paths : add_file(p)

SpecKey == InitKey /\ [][NextKey]_vars

(* ------------------------------ get on tasks with lists and with errors *)
\* z takes the list ['x', 'y']; w and y may be operations that raise
DepInputs ==
  { <<W, Task(F, <<SCEN>>)>>,       <<W, Task(BAD, <<>>)>>,
    <<X, Task(F, <<W>>)>>,
    <<Y, Task(F, <<W>>)>>,          <<Y, Task(BAD, <<>>)>>,
    <<Z, Task(G, <<List(<<"x", "y">>)>>)>> }
DepKeys == {X, Z}

NextDeps ==
  \/ \E in \in DepInputs : add(in[1], in[2], FALSE)
  \/ \E k \in DepKeys : get(k)
  \/ \E k \in running : execute_task(k)
  \/ get_loop

SpecDeps == Init /\ [][NextDeps]_vars

(* ----------------------------------------- what a registry entry denotes *)
\* the value of label k under registry g, by structural recursion over the
\* bindings (defined when nothing that k depends on lies on a cycle)
RECURSIVE Denote(_, _)
DenoteLabel(g, a) == IF a \in DOMAIN g THEN Denote(g, a) ELSE Lit(a)

DenoteAtom(g, a) ==
  IF islist(a)
  THEN <<<<"list">>>> \o [i \in 1..(Len(a) - 1) |-> DenoteLabel(g, elements(a)[i])]
  ELSE DenoteLabel(g, a)

Denote(g, k) ==
  LET c == g[k]
  IN IF ~istask(c) THEN DenoteAtom(g, c.args[1])
     ELSE <<c.op>> \o [i \in 1..Len(c.args) |-> DenoteAtom(g, c.args[i])]

\* k and everything k depends on
ClosureOf(g, k) == IF k \in DOMAIN g THEN {k} \cup Closure(g, k) ELSE {}

CycleIn(g, k) == \E j \in ClosureOf(g, k) : j \in Closure(g, j)

RaisesIn(g, k) == \E j \in ClosureOf(g, k) : istask(g[j]) /\ Raises(g[j].op)

\* the computation bound to k can be evaluated to a value
Healthy(g, k) == k \in DOMAIN g /\ ~CycleIn(g, k) /\ ~RaisesIn(g, k)

\* the string labels among the arguments of k's binding that are not bound
Unbound(g, k) == {a \in Range(g[k].args) : a[1] = "str" /\ a \notin DOMAIN g}

GetDone == Idle /\ last.api = "get"
GetOk == GetDone /\ last.res = "ok"

\* the get call is stuck in queue_get: nothing is running, nothing is queued
Blocked == pc = "get" /\ queue = <<>> /\ running = {}

(* ------------------------------------------------------------------ C1 *)
\* C1: add(L, c, strict=True) on a label L that is present fails with a
\* duplicate-key error and leaves every entry as it was; add(L, c) without
\* strict succeeds and binds L to c, whatever the registry holds; and the get(L)
\* that follows such an add returns the value of c.
C1_StrictContract ==
  [][ /\ (Idle /\ last'.api = "add") =>
           IF last'.strict /\ last'.key \in DOMAIN graph
           THEN last'.res = "KeyError" /\ graph' = graph
           ELSE last'.res = "ok" /\ graph' = Bind(graph, last'.key, last'.comp)
      /\ (pc' = "idle" /\ last'.api = "get" /\ last'.comp # NoComp
            /\ Healthy(graph, last'.key)) =>
           /\ last'.res = "ok"
           /\ last'.val = Denote(graph, last'.key) ]_vars

(* ------------------------------------------------------------------ C2 *)
\* C2: within one get call no operation is invoked more than once; when the
\* call returns a value, the operation of every label in the dependency
\* closure of the requested label has been invoked exactly once, a shared
\* dependency included; and all consumers of a label were handed the same
\* result for it.
C2_Memoized ==
  /\ \A k \in DOMAIN calls : Len(calls[k]) <= 1
  /\ GetOk =>
       \A k \in ClosureOf(graph, last.key) :
          istask(graph[k]) => k \in DOMAIN calls /\ Len(calls[k]) = 1
  /\ \A j1 \in DOMAIN calls, j2 \in DOMAIN calls :
       \A i1 \in 1..Len(graph[j1].args), i2 \in 1..Len(graph[j2].args) :
          (graph[j1].args[i1] = graph[j2].args[i2]
             /\ graph[j1].args[i1] \in DOMAIN graph)
          => calls[j1][1][i1] = calls[j2][1][i2]

\* a diamond has been evaluated: z = g(x, y), x = f(w), y = f(w), w a task
C2_Witness ==
  /\ GetOk /\ last.key = Z
  /\ DOMAIN graph = {W, X, Y, Z}
  /\ graph[Z] = Task(G, <<X, Y>>)
  /\ graph[X] = Task(F, <<W>>) /\ graph[Y] = Task(F, <<W>>)
  /\ istask(graph[W])
  /\ Len(calls[W]) = 1
  /\ calls[X][1][1] = calls[Y][1][1]

(* ------------------------------------------------------------------ C3 *)
\* C3: a get call invokes only operations bound to labels in the dependency
\* closure of the requested label, and add, finalize, disaggregate and
\* add_file invoke no operation.
C3_Lazy ==
  IF last.api = "get"
  THEN DOMAIN calls \subseteq ClosureOf(graph, last.key)
  ELSE DOMAIN calls = {}

(* ------------------------------------------------------------------ C4 *)
\* C4: when the dependency closure of the requested label contains a cycle,
\* get ends by raising an error: it is never stuck and never returns a value.
C4_CycleRaises ==
  /\ (pc = "get" /\ CycleIn(graph, last.key)) => ~Blocked
  /\ (GetDone /\ CycleIn(graph, last.key)) => last.res # "ok"

(* ------------------------------------------------------------------ C5 *)
\* C5: an add without strict never fails, whatever labels its computation
\* refers to; and once y is bound to a task (op, z) and z is bound, in either
\* order, get(y) succeeds and returns op applied to the value of z.
C5_ForwardRef ==
  /\ (last.api = "add" /\ ~last.strict) => last.res = "ok"
  /\ (GetDone /\ Healthy(graph, last.key) /\ istask(graph[last.key])
        /\ Range(graph[last.key].args) \subseteq DOMAIN graph) =>
       /\ last.res = "ok"
       /\ last.val = <<graph[last.key].op>> \o
            [i \in 1..Len(graph[last.key].args) |->
               Denote(graph, graph[last.key].args[i])]

(* ------------------------------------------------------------------ C6 *)
\* C6: when the task bound to the requested label names a label that is not
\* bound, get raises an error, and no operation is invoked with an unbound
\* label among its arguments.
C6_Unresolved ==
  /\ \A k \in DOMAIN calls : Unbound(graph, k) = {}
  /\ (GetDone /\ last.key \in DOMAIN graph /\ istask(graph[last.key])
        /\ Unbound(graph, last.key) # {}) => last.res # "ok"

(* ------------------------------------------------------------------ C7 *)
\* L is bound to the label M, directly or through a chain of aliases, and M
\* is bound
RECURSIVE AliasTo(_, _, _, _)
AliasTo(g, l, m, n) ==
  /\ n > 0
  /\ l \in DOMAIN g /\ m \in DOMAIN g
  /\ ~istask(g[l])
  /\ (g[l].args[1] = m \/ AliasTo(g, g[l].args[1], m, n - 1))

Aliased(g, l, m) == AliasTo(g, l, m, Cardinality(DOMAIN g))

\* C7: when L is an alias of a bound label M, through a chain of any length,
\* two get calls for L and M with no change of the registry between them end
\* alike: both return, and return the same value, or neither returns.
C7_Alias ==
  (GetDone /\ prev.api = "get"
     /\ (Aliased(graph, last.key, prev.key) \/ Aliased(graph, prev.key, last.key)))
  => /\ (last.res = "ok") <=> (prev.res = "ok")
     /\ last.res = "ok" => last.val = prev.val

\* get(x) and then get(z) have returned, where z -> x -> y and y is a task
C7_Witness ==
  /\ GetOk /\ last.key = Z
  /\ prev.api = "get" /\ prev.key = X /\ prev.res = "ok"
  /\ Z \in DOMAIN graph /\ graph[Z] = Atom(X)
  /\ X \in DOMAIN graph /\ graph[X] = Atom(Y)
  /\ Y \in DOMAIN graph /\ istask(graph[Y])
  /\ last.val = prev.val

(* ------------------------------------------------------------------ C8 *)
\* C8: no step of a get call, whether the call returns a value or fails,
\* changes the registry: it holds the same labels bound to the same
\* computations before and after.
C8_GetFrame == [][last'.api = "get" => graph' = graph]_vars

\* a get call has failed on an error raised by an operation
C8_Witness ==
  /\ GetDone /\ last.res = "OpError"
  /\ DOMAIN calls # {}
  /\ Cardinality(DOMAIN graph) >= 2

(* ------------------------------------------------------------------ C9 *)
\* C9: finalize(h) always succeeds, binds 'scenario' to h whether or not it
\* was bound, and changes no other entry; finalize(h) right after finalize(h)
\* leaves the registry as it is.
C9_Finalize ==
  [][ (Idle /\ last'.api = "finalize") =>
        /\ last'.res = "ok"
        /\ DOMAIN graph' = DOMAIN graph \cup {SCEN}
        /\ graph'[SCEN] = last'.comp
        /\ \A k \in DOMAIN graph \ {SCEN} : graph'[k] = graph[k]
        /\ (last.api = "finalize" /\ last.comp = last'.comp) => graph' = graph
    ]_vars

\* finalize(h2) has replaced the binding of a registry that holds other
\* entries
C9_Witness ==
  /\ Idle /\ last.api = "finalize" /\ last.comp = Atom(H2)
  /\ graph[SCEN] = Atom(H2)
  /\ Cardinality(DOMAIN graph) >= 3

(* ----------------------------------------------------------------- C10 *)
\* C10: the value a get call returns is the value of the requested label
\* under the registry of that call; the call starts from the literal entries
\* alone, so every task result in its cache was computed in this call, and
\* every operation in the closure is invoked again in each call.
C10_NoStale ==
  /\ GetOk => /\ last.val = Denote(graph, last.key)
              /\ \A k \in ClosureOf(graph, last.key) :
                   istask(graph[k]) => k \in DOMAIN calls
  /\ pc = "get" =>
       \A k \in DOMAIN cache : istask(graph[k]) => k \in DOMAIN calls

\* a get finished, the registry was changed, and a later get of x, which
\* depends on 'scenario' through w, has returned the value made from h2
C10_Witness ==
  /\ GetOk /\ last.key = X /\ prev = OldCall
  /\ SCEN \in DOMAIN graph /\ graph[SCEN] = Atom(H2)
  /\ SCEN \in Closure(graph, X)
  /\ last.val = <<F, <<F, Lit(H2)>>>>
  /\ W \in DOMAIN calls /\ X \in DOMAIN calls

(* ----------------------------------------------------------------- C11 *)
\* the Key that var stands for: the object itself, or the Key parsed from
\* the string
KeyValue(var, hp) == KeyOf(from_str_or_key(var), hp)

DisaggOk == Idle /\ last.api = "disaggregate" /\ last.res = "ok"
DisaggFailed == Idle /\ last.api = "disaggregate" /\ last.res # "ok"

\* C11: a disaggregate(var, new_dim, method, args) that succeeds writes one
\* entry: its label is var's name with var's dimensions followed by
\* new_dim, its task is (method, var, *args), and the first argument, var,
\* is still the label it was before the call and not the new label; the
\* entry is written whether or not the label was bound, and every other
\* entry keeps its label and its computation.
C11_Binds ==
  [][ DisaggOk' =>
        LET var == last'.comp.args[1]
            new_key == KeyValue(var, heap) \o <<last'.val[2][2]>>
        IN \E e \in DOMAIN graph' :
             /\ KeyOf(e, heap') = new_key
             /\ graph'[e] = last'.comp
             /\ last'.comp.op \in Catalogue
             /\ KeyValue(var, heap') = KeyValue(var, heap)
             /\ ~SameKey(KeyValue(var, heap'), new_key)
             /\ DOMAIN graph' = DOMAIN graph \cup {e}
             /\ \A x \in DOMAIN graph \ {e} :
                  graph'[x] = graph[x] /\ KeyOf(x, heap') = KeyOf(x, heap)
    ]_vars

(* ----------------------------------------------------------------- C12 *)
\* C12: no call changes the dimensions of a Key that is the label of an
\* entry; and after a disaggregate(var, new_dim) that succeeds on a Key
\* object var that was bound, var has the dimensions it had, a lookup of
\* the Key it was still finds its computation, and the new task is bound
\* to another Key than its own first argument, so it does not depend on
\* itself.
C12_KeyImmutable ==
  [][ /\ \A e \in DOMAIN graph : KeyOf(e, heap') = KeyOf(e, heap)
      /\ (DisaggOk' /\ last'.key[1] = "ref"
            /\ Lookup(graph, heap, KeyOf(last'.key, heap)) # {}) =>
           LET var == last'.key
               was == KeyOf(var, heap)
           IN /\ heap'[var[2]] = heap[var[2]]
              /\ \E e \in Lookup(graph', heap', was) :
                   \E e0 \in Lookup(graph, heap, was) : graph'[e] = graph[e0]
              /\ \A e \in DOMAIN graph' :
                   graph'[e] = last'.comp =>
                     ~SameKey(KeyOf(e, heap'), KeyOf(last'.comp.args[1], heap'))
    ]_vars

(* ----------------------------------------------------------------- C13 *)
Distinct(ds) == \A i \in 1..Len(ds), j \in 1..Len(ds) : ds[i] = ds[j] => i = j

\* C13: a disaggregate(var, new_dim, ...) whose new_dim is one of the
\* dimensions of var fails with ValueError and leaves the registry as it
\* was; and the dimensions of every Key that is a label are pairwise
\* distinct.
C13_DupDim ==
  [][ /\ \A e \in DOMAIN graph' :
           KeyOf(e, heap')[1] = "key" => Distinct(dims_of(KeyOf(e, heap')))
      /\ (Idle' /\ last'.api = "disaggregate"
            /\ last'.val[2][2] \in
                 Range(dims_of(KeyValue(last'.comp.args[1], heap)))) =>
           last'.res = "ValueError" /\ graph' = graph
    ]_vars

(* ----------------------------------------------------------------- C14 *)
\* C14: a method given by a name m that the catalogue holds as
\* disaggregate_<m> is resolved to that entry; a name the catalogue does not
\* hold makes the call fail with the method-not-found error (the ValueError
\* of line 146); a method that is neither a name nor callable makes the
\* call fail with an error of another kind; and the failure is that of the
\* disaggregate call: no entry is ever bound to a task whose operation is an
\* unresolved name or is not callable.
C14_MethodErrors ==
  /\ DisaggOk => last.comp.op \in Catalogue
  /\ (DisaggFailed /\ last.comp.op[1] = "name") =>
       /\ <<"disaggregate_" \o last.comp.op[2]>> \notin Catalogue
       /\ last.res = "ValueError"
  /\ (DisaggFailed /\ last.comp.op[1] # "name") =>
       /\ ~callable(last.comp.op)
       /\ last.res # "ValueError"
  /\ \A e \in DOMAIN graph :
       istask(graph[e]) => graph[e].op[1] \notin {"name", "num"}

(* ----------------------------------------------------------------- C15 *)
IsFileLabel(k) == k[1] = "str" /\ Len(k) = 3

\* C15: add_file(path) binds the label 'file:' + path, and that label
\* alone, to a task that calls the file loader with path, and calls no
\* operation itself; the loader of a file label is called only in a get
\* call whose requested label is that label or depends on it, at most once
\* in the call, and once when a get of that label returns.
C15_AddFile ==
  /\ (Idle /\ last.api = "add_file") =>
       /\ last.comp.op[1] = "load_file"
       /\ last.key = file_label(last.comp.op[2])
       /\ graph[last.key] = last.comp
       /\ DOMAIN calls = {}
  /\ \A k \in DOMAIN calls :
       IsFileLabel(k) =>
         /\ last.api = "get"
         /\ k \in ClosureOf(graph, last.key)
         /\ Len(calls[k]) = 1
  /\ (GetOk /\ IsFileLabel(last.key)) =>
       last.key \in DOMAIN calls /\ Len(calls[last.key]) = 1

(* ----------------------------------------------------------------- C16 *)
\* the dimensions of the parameters of the store, and Key.aggregates: one
\* Key for each dimension dropped
ParDims(par) == <<"d", "e">>
Drop(ds, i) == SubSeq(ds, 1, i - 1) \o SubSeq(ds, i + 1, Len(ds))
AggregateKeys(par) ==
  {<<"key", par>> \o Drop(ParDims(par), i) : i \in 1..Len(ParDims(par))}

\* C16: from_scenario(scenario) returns without an error, and the registry
\* of the Reporter it returns holds, for each parameter of
\* scenario.par_list(), the Key of the parameter and each of its aggregate
\* Keys.
C16_FromScenario ==
  (Idle /\ last.api = "from_scenario") =>
     /\ last.res = "ok"
     /\ \A i \in 2..Len(last.val) :
          LET par == last.val[i][2]
          IN /\ Lookup(graph, heap, <<"key", par>> \o ParDims(par)) # {}
             /\ \A a \in AggregateKeys(par) : Lookup(graph, heap, a) # {}

(* ----------------------------------------------------------------- C17 *)
\* the labels a lookup finds in the registry
Present(g, hp) == {KeyOf(e, hp) : e \in {x \in DOMAIN g : Lookup(g, hp, KeyOf(x, hp)) # {}}}

\* C17: every label that a lookup finds in the registry before a step of
\* add, finalize, disaggregate, add_file or get is found by a lookup after
\* it, whether the call succeeds or fails.
C17_Monotonic ==
  [][ last'.api # "from_scenario" =>
        \A v \in Present(graph, heap) : Lookup(graph', heap', v) # {} ]_vars

(* ----------------------------------------------------------------- C18 *)
\* C18: whatever the workers do in whatever order, a task runs only while
\* every label among its arguments, those inside a list argument included,
\* has its value in the cache of the call; the operations of those labels
\* were called before its own, in the same call; and the arguments handed
\* to its operation are the values of those labels.
C18_DepsFirst ==
  /\ \A k \in running : get_dependencies(graph, k) \subseteq DOMAIN cache
  /\ \A k \in DOMAIN calls :
       \A j \in UNION {arg_atoms(a) : a \in Range(graph[k].args)} :
          (j \in DOMAIN graph /\ istask(graph[j])) => j \in DOMAIN calls
  /\ \A k \in DOMAIN calls :
       \A i \in 1..Len(graph[k].args) :
          calls[k][1][i] = DenoteAtom(graph, graph[k].args[i])

\* get(z) has returned, where z = g(['x', 'y']), x = f(w), y = f(w) and w
\* is a task: g was handed the list of the values of x and y
C18_Witness ==
  /\ GetOk /\ last.key = Z
  /\ DOMAIN graph = {W, X, Y, Z}
  /\ graph[Z] = Task(G, <<List(<<"x", "y">>)>>)
  /\ graph[X] = Task(F, <<W>>) /\ graph[Y] = Task(F, <<W>>)
  /\ graph[W] = Task(F, <<SCEN>>)
  /\ calls[Z][1][1] = <<<<"list">>, <<F, <<F, Lit(SCEN)>>>>, <<F, <<F, Lit(SCEN)>>>>>>

(* ----------------------------------------------------------------- C19 *)
\* the labels whose operation was called in the latest call and raised
Failed == {j \in DOMAIN calls : Raises(graph[j].op)}

\* C19: when the operation of a label in the dependency closure of the
\* requested label has raised, the get call ends by raising an error that
\* an operation of that closure raised in this call, as it was raised; and
\* no operation is called whose label depends on a label whose operation
\* raises.
C19_FailFast ==
  /\ (GetDone /\ Failed \cap ClosureOf(graph, last.key) # {}) =>
       /\ last.res = "OpError"
       /\ last.val[2] \in Failed \cap ClosureOf(graph, last.key)
  /\ \A k \in DOMAIN calls :
       \A j \in Closure(graph, k) : ~(istask(graph[j]) /\ Raises(graph[j].op))

(* ----------------------------------------------------------------- C20 *)
\* C20: a disaggregate call that fails, on a name the catalogue does not
\* hold or on a method that is not callable, leaves the registry as it was:
\* the same entries, no label with other dimensions than before, and the
\* var it was handed with the dimensions it had.
C20_FailAtomic ==
  [][ DisaggFailed' =>
        /\ graph' = graph
        /\ \A e \in DOMAIN graph : KeyOf(e, heap') = KeyOf(e, heap)
        /\ KeyValue(last'.comp.args[1], heap') = KeyValue(last'.comp.args[1], heap)
    ]_vars

====
